---- MODULE Spec2Model ----
(***************************************************************************)
(* Booking lifecycle, follow-up budget and subscription message quota of   *)
(* the onlyforu backend (FastAPI handlers over SQLAlchemy AsyncSession).   *)
(*                                                                         *)
(* Every handler runs in a session of its own (get_db): it SELECTs a row   *)
(* into an ORM object, works on that object, and db.commit() flushes the   *)
(* changed attributes as absolute values (UPDATE ... SET col = value) and  *)
(* the added rows (INSERT) in one transaction.  No handler locks a row     *)
(* (no with_for_update, no version column), and the engine is created      *)
(* with the database's default isolation level, so a handler is two        *)
(* steps: the read, and the commit.                                        *)
(***************************************************************************)
EXTENDS Integers, Sequences, FiniteSets, TLC

\* ------------------------------------------------------------------ bounds
\* tier.max_messages_per_month of the one tier of the model
MaxMessagesPerMonth == 2
\* number of send_message requests issued against the subscription
NumSendRequests == 3
\* number of bookings created
MaxBookings == 1
\* number of booking requests that can be in flight at the same time
NumWorkers == 2
\* number of bookings created where payments are made
MaxPaymentBookings == 2
\* number of orders the payment gateway creates
MaxOrders == 2
\* number of cancel_subscription requests issued against the subscription
NumCancelRequests == 2
\* number of websockets opened
MaxConnections == 3
\* number of reply_to_message requests issued
NumReplyRequests == 2

\* ------------------------------------------------------- program constants
\* bookings.py:41  sla_hours = 48
SlaHours == 48
\* bookings.py:54  follow_ups_remaining=1
DefaultFollowUps == 1

None == "None"
\* a NULL in an integer or timestamp column
Null == 0 - 1

Fan == "fan"
Creator == "creator"
Stranger == "stranger"
Users == {Fan, Creator, Stranger}

SendIds == 1..NumSendRequests
CancelIds == (NumSendRequests + 1)..(NumSendRequests + NumCancelRequests)
FirstReply == NumSendRequests + NumCancelRequests + 1
ReplyIds == FirstReply..(FirstReply + NumReplyRequests - 1)
Connections == 1..MaxConnections
BookingIds == 1..MaxBookings
Workers == 1..NumWorkers

VARIABLES
    subscription,   \* the Subscription row: status, messages_sent_this_period
    messages,       \* the rows of table messages, in insertion order
    send,           \* the requests on the subscription: pc, actor, the row as read, result
    bookings,       \* the rows of table bookings, by id (1..Len)
    follow_ups,     \* the rows of table follow_up_messages, in insertion order
    req,            \* the booking request each worker has in flight, if any
    resp,           \* the answer to the booking request that ended last
    now,            \* the clock (hours)
    orders,         \* the number of orders the payment gateway has created
    active_connections, \* ConnectionManager.active_connections: user -> its websockets
    sockets,        \* every websocket: its state, its user, the events written to it
    pushes          \* the send_personal_message call of each request, while it runs

msgVars == <<subscription, messages, send>>
bookVars == <<bookings, follow_ups, req, resp, now>>
wsVars == <<active_connections, sockets, pushes>>
vars == <<subscription, messages, send, bookings, follow_ups, req, resp, now, orders,
          active_connections, sockets, pushes>>

\* ------------------------------------------------------------- messaging
SubscriptionStatus == {"active", "paused", "cancelled", "expired"}

\* A Subscription as create_subscription persists it.
NewSubscription ==
    [fan_id |-> Fan, status |-> "active", messages_sent_this_period |-> 0]

IdleRequest == [pc |-> "idle", actor |-> None, snap |-> None, result |-> None]

\* messages.py:50, with the comparison off by one
QuotaReachedStrict(sent) == sent > MaxMessagesPerMonth

\* messages.py:50  subscription.messages_sent_this_period >= tier.max_messages_per_month
QuotaReached(sent) == sent >= MaxMessagesPerMonth

\* messages.py:61-71
FanMessage(actor) ==
    [sender_id |-> actor, receiver_id |-> Creator, status |-> "pending",
     is_fan_message |-> TRUE, replied_at |-> Null]

\* ----------------------------------------------------- push delivery
\* core/websockets.py:11  self.active_connections = {}
NoConnections == [u \in {} |-> <<>>]

\* a websocket nobody has connected yet
NewSocket == [state |-> "new", user |-> None, received |-> {}]

\* no send_personal_message call is running for a request
NoPush ==
    [user |-> None, event |-> 0, idx |-> 0, current |-> 0, detached |-> FALSE,
     first |-> {}, tried |-> {}]

Range(list) == {list[i] : i \in 1..Len(list)}

\* core/websockets.py:15-17  the registry after connect has registered c
Connected(registry, c, user) ==
    IF user \in DOMAIN registry
      THEN [registry EXCEPT ![user] = Append(@, c)]
      ELSE [u \in DOMAIN registry \cup {user} |->
                IF u = user THEN <<c>> ELSE registry[u]]

\* list.remove(c): the list without the first occurrence of c
Remove(list, c) ==
    IF c \notin Range(list) THEN list
    ELSE LET i == CHOOSE j \in 1..Len(list) :
                      list[j] = c /\ \A k \in 1..(j - 1) : list[k] # c
         IN  SubSeq(list, 1, i - 1) \o SubSeq(list, i + 1, Len(list))

\* core/websockets.py:20-25, dropping every connection of the user
DisconnectedAll(registry, c, user) ==
    IF user \notin DOMAIN registry THEN registry
    ELSE [u \in DOMAIN registry \ {user} |-> registry[u]]

\* core/websockets.py:20-25  the registry after disconnect(c, user)
Disconnected(registry, c, user) ==
    IF user \notin DOMAIN registry THEN registry
    ELSE IF Remove(registry[user], c) = <<>>
      THEN [u \in DOMAIN registry \ {user} |-> registry[u]]
      ELSE [registry EXCEPT ![user] = Remove(@, c)]

\* api/v1/websockets.py:44  manager.connect(websocket, user_id)
connect(c, user) ==
    /\ sockets[c].state = "new"
    /\ active_connections' = Connected(active_connections, c, user)
    /\ sockets' = [sockets EXCEPT ![c].state = "open", ![c].user = user]
    /\ UNCHANGED pushes
    /\ UNCHANGED <<msgVars, bookVars, orders>>

\* api/v1/websockets.py:60-61  the client has gone: manager.disconnect(websocket,
\* user_id).  A loop of send_personal_message that iterates over the list of
\* the user keeps that list object: once the entry is deleted, the loop is
\* left with the emptied list, whatever is registered afterwards.
disconnect(c) ==
    /\ sockets[c].state = "open"
    /\ active_connections' = Disconnected(active_connections, c, sockets[c].user)
    /\ sockets' = [sockets EXCEPT ![c].state = "closed"]
    /\ pushes' = [r \in DOMAIN pushes |->
                    IF /\ pushes[r].user = sockets[c].user
                       /\ sockets[c].user \notin DOMAIN active_connections'
                      THEN [pushes[r] EXCEPT !.detached = TRUE]
                      ELSE pushes[r]]
    /\ UNCHANGED <<msgVars, bookVars, orders>>

\* the list the loop of a send_personal_message call iterates over
PushList(p) ==
    IF p.detached \/ p.user \notin DOMAIN active_connections
      THEN <<>> ELSE active_connections[p.user]

\* core/websockets.py:30-33: send_personal_message has taken the first
\* connection of the user's list and awaits the write of `event` to it
BeginPush(user, event) ==
    [user |-> user, event |-> event, idx |-> 1,
     current |-> active_connections[user][1], detached |-> FALSE,
     first |-> Range(active_connections[user]), tried |-> {}]

\* core/websockets.py:31  the next connection of the for loop: the element at
\* the iterator's index in the list as it is now, 0 when the list has no more
NextOfList(p) ==
    IF p.idx < Len(PushList(p)) THEN PushList(p)[p.idx + 1] ELSE 0

\* core/websockets.py:31-36, with a write that raises ending the handler
send_json_raises(r, ok) ==
    /\ send[r].pc = "pushing"
    /\ ok => sockets[pushes[r].current].state = "open"
    /\ sockets' = IF ok THEN [sockets EXCEPT ![pushes[r].current].received =
                                  @ \cup {pushes[r].event}]
                  ELSE sockets
    /\ pushes' = [pushes EXCEPT ![r].tried = @ \cup {pushes[r].current},
                                ![r].current = NextOfList(pushes[r]),
                                ![r].idx = @ + 1]
    /\ send' = IF ~ok
                 THEN [send EXCEPT ![r].pc = "done", ![r].result = "ServerError"]
               ELSE IF NextOfList(pushes[r]) = 0
                 THEN [send EXCEPT ![r].pc = "done", ![r].result = "Accepted"]
                 ELSE send
    /\ UNCHANGED <<subscription, messages, active_connections>>
    /\ UNCHANGED <<bookVars, orders>>

\* core/websockets.py:31-36: the write to the current connection returns
\* (ok) or raises (the exception is logged), and the loop goes on to the next
\* connection or ends; the handler then returns its result
send_json(r, ok) ==
    /\ send[r].pc = "pushing"
    /\ ok => sockets[pushes[r].current].state = "open"
    /\ sockets' = IF ok THEN [sockets EXCEPT ![pushes[r].current].received =
                                  @ \cup {pushes[r].event}]
                  ELSE sockets
    /\ pushes' = [pushes EXCEPT ![r].tried = @ \cup {pushes[r].current},
                                ![r].current = NextOfList(pushes[r]),
                                ![r].idx = @ + 1]
    /\ send' = IF NextOfList(pushes[r]) = 0
                 THEN [send EXCEPT ![r].pc = "done", ![r].result = "Accepted"]
                 ELSE send
    /\ UNCHANGED <<subscription, messages, active_connections>>
    /\ UNCHANGED <<bookVars, orders>>

\* send_message up to the point where it has built the Message: the SELECT of
\* the subscription (by id and fan_id) and the checks made on the row read.
send_message_read(r, actor) ==
    /\ send[r].pc = "idle"
    /\ IF subscription.fan_id # actor
         THEN send' = [send EXCEPT ![r] = [pc |-> "done", actor |-> actor,
                                            snap |-> None, result |-> "NotFound"]]
       ELSE IF subscription.status # "active"
         THEN send' = [send EXCEPT ![r] = [pc |-> "done", actor |-> actor,
                                            snap |-> None, result |-> "NotActive"]]
       ELSE IF QuotaReached(subscription.messages_sent_this_period)
         THEN send' = [send EXCEPT ![r] = [pc |-> "done", actor |-> actor,
                                            snap |-> subscription,
                                            result |-> "QuotaExceeded"]]
       ELSE send' = [send EXCEPT ![r] = [pc |-> "loaded", actor |-> actor,
                                          snap |-> subscription, result |-> None]]
    /\ UNCHANGED <<subscription, messages>>
    /\ UNCHANGED <<bookVars, orders, wsVars>>

\* reply | send: the handler after its commit: with no connection of the
\* receiver registered send_personal_message does nothing and the handler
\* returns; otherwise the push begins
AfterCommit(r, receiver, event) ==
    IF receiver \in DOMAIN active_connections
      THEN /\ send' = [send EXCEPT ![r].pc = "pushing"]
           /\ pushes' = [pushes EXCEPT ![r] = BeginPush(receiver, event)]
      ELSE /\ send' = [send EXCEPT ![r].pc = "done", ![r].result = "Accepted"]
           /\ UNCHANGED pushes

\* db.add(message); subscription.messages_sent_this_period += 1; db.commit():
\* the INSERT and the UPDATE of the counter to (value read) + 1, in one
\* transaction; then messages.py:81-97, the push of the new message to the
\* creator and the return
send_message_commit(r) ==
    /\ send[r].pc = "loaded"
    /\ messages' = Append(messages, FanMessage(send[r].actor))
    /\ subscription' = [subscription EXCEPT !.messages_sent_this_period =
                            send[r].snap.messages_sent_this_period + 1]
    /\ AfterCommit(r, FanMessage(send[r].actor).receiver_id, Len(messages) + 1)
    /\ UNCHANGED <<active_connections, sockets>>
    /\ UNCHANGED <<bookVars, orders>>

\* --------------------------------------------------------------- bookings
BookingStatus == {"pending_question", "awaiting_response", "completed", "cancelled"}
QuestionTypes == {"text", "audio", "video"}
ResponseTypes == {"voice", "video"}

\* hours the clock shows after hour 0: an hour within the SLA of a booking
\* created at hour 0, the last such hour, and the first hour after it
DeadlineHours == {SlaHours - 1, SlaHours, SlaHours + 1}

\* inputs of the requests
TypeTags == {"text", "audio", "video", "voice", "bogus"}
ContentTypes == {None, "audio/", "video/"}
TextOf(w) == "text" \o ToString(w)
Ratings == {1, 5}
Reviews == {None}
Amounts == {199}
BookingActors == {Fan, Creator}

\* the reference the blob store returns for an upload made by worker w
BlobUrl(folder, b, w) == folder \o ToString(b) \o "_" \o ToString(w)

IdleWorker ==
    [pc |-> "idle", op |-> None, actor |-> None, bid |-> 0, kind |-> None,
     text |-> None, media |-> None, rating |-> Null, snap |-> None]

\* a request that has read row `snap` and passed the handler's checks
Loaded(op, actor, b, kind, text, media, rating, snap) ==
    [pc |-> "loaded", op |-> op, actor |-> actor, bid |-> b, kind |-> kind,
     text |-> text, media |-> media, rating |-> rating, snap |-> snap]

NoResponse == [op |-> None, result |-> None]

\* the answer to a request
Response(op, result) == [op |-> op, result |-> result]

\* worker w answers the request it has in flight
Answer(w, result) ==
    /\ resp' = Response(req[w].op, result)
    /\ req' = [req EXCEPT ![w] = IdleWorker]

\* a handler up to its first await after the SELECT: it answers with the error
\* of the first check that fails, or goes on with the row it read
Read(w, op, check, loaded) ==
    /\ req[w].pc = "idle"
    /\ IF check = "pass"
         THEN req' = [req EXCEPT ![w] = loaded] /\ UNCHANGED resp
         ELSE resp' = Response(op, check) /\ UNCHANGED req
    /\ UNCHANGED <<bookings, follow_ups, now>>
    /\ UNCHANGED <<msgVars, orders, wsVars>>

\* The unit of work's UPDATE: only the attributes whose value differs from the
\* value loaded are written, each as an absolute value.
Flush(row, snap, new) ==
    [f \in DOMAIN row |-> IF new[f] # snap[f] THEN new[f] ELSE row[f]]

\* bookings.py:45-55, models.py:384-435
NewBooking(actor, creator, amount) ==
    [fan_id |-> actor, creator_id |-> creator, status |-> "pending_question",
     question_type |-> None, question_text |-> None, question_audio_url |-> None,
     question_video_url |-> None, question_submitted_at |-> Null,
     response_media_url |-> None, response_type |-> None,
     response_submitted_at |-> Null,
     payment_status |-> None, razorpay_order_id |-> None,
     razorpay_payment_id |-> None, razorpay_signature |-> None,
     amount_paid |-> amount, created_at |-> now,
     expected_response_by |-> now + SlaHours, sla_met |-> None,
     follow_ups_remaining |-> DefaultFollowUps,
     fan_rating |-> Null, fan_review |-> None]

create_booking(actor, creator, amount) ==
    /\ bookings' = Append(bookings, NewBooking(actor, creator, amount))
    /\ resp' = Response("create_booking", "OK")
    /\ UNCHANGED <<follow_ups, req, now>>
    /\ UNCHANGED <<msgVars, orders, wsVars>>

\* select(Booking).filter(Booking.id == booking_id, Booking.fan_id == current_user.id)
FanBooking(b, actor) == b \in DOMAIN bookings /\ bookings[b].fan_id = actor

\* bookings.py:124-190 / follow_ups.py:84-143: the payload checks per type
PayloadValid(kind, text, media) ==
    CASE kind = "text" -> text # None
      [] kind = "audio" -> media # None /\ media = "audio/"
      [] kind = "video" -> media # None /\ media = "video/"

\* bookings.py:91-190: the checks of submit_question, in the handler's order
submit_question_check(actor, b, kind, text, media) ==
    IF kind \notin QuestionTypes THEN "ValidationError"
    ELSE IF ~FanBooking(b, actor) THEN "NotFound"
    ELSE IF bookings[b].status # "pending_question" THEN "InvalidState"
    ELSE IF ~PayloadValid(kind, text, media) THEN "ValidationError"
    ELSE "pass"

submit_question_read(w, actor, b, kind, text, media) ==
    Read(w, "submit_question", submit_question_check(actor, b, kind, text, media),
         Loaded("submit_question", actor, b, kind, text, media, Null,
                IF b \in DOMAIN bookings THEN bookings[b] ELSE None))

\* bookings.py:120-198: the attributes submit_question sets on the row it read
QuestionWritten(w) ==
    [req[w].snap EXCEPT
        !.question_type = req[w].kind,
        !.question_text = req[w].text,
        !.question_audio_url =
            IF req[w].kind = "audio" THEN BlobUrl("questions/audio_", req[w].bid, w) ELSE None,
        !.question_video_url =
            IF req[w].kind = "video" THEN BlobUrl("questions/", req[w].bid, w) ELSE None,
        !.question_submitted_at = now,
        !.status = "awaiting_response"]

\* the upload has succeeded: the row is updated and committed
submit_question_commit(w) ==
    /\ req[w].pc = "loaded" /\ req[w].op = "submit_question"
    /\ bookings' = [bookings EXCEPT ![req[w].bid] = Flush(@, req[w].snap, QuestionWritten(w))]
    /\ Answer(w, "OK")
    /\ UNCHANGED <<follow_ups, now>>
    /\ UNCHANGED <<msgVars, orders, wsVars>>

\* select(CreatorProfile).filter(CreatorProfile.user_id == current_user.id)
HasCreatorProfile(actor) == actor = Creator

\* select(Booking).filter(Booking.id == booking_id, Booking.creator_id == creator_profile.id)
CreatorBooking(b, actor) == b \in DOMAIN bookings /\ bookings[b].creator_id = actor

\* bookings.py:476-487
ResponseMediaValid(kind, media) ==
    CASE kind = "voice" -> media # None /\ media = "audio/"
      [] kind = "video" -> media # None /\ media = "video/"

\* bookings.py:434-487: the checks of submit_creator_response, in the handler's order
submit_creator_response_check(actor, b, kind, media) ==
    IF kind \notin ResponseTypes THEN "ValidationError"
    ELSE IF ~HasCreatorProfile(actor) THEN "NotFound"
    ELSE IF ~CreatorBooking(b, actor) THEN "NotFound"
    ELSE IF bookings[b].status # "awaiting_response" THEN "InvalidState"
    ELSE IF ~ResponseMediaValid(kind, media) THEN "ValidationError"
    ELSE "pass"

submit_creator_response_read(w, actor, b, kind, media) ==
    Read(w, "submit_response", submit_creator_response_check(actor, b, kind, media),
         Loaded("submit_response", actor, b, kind, None, media, Null,
                IF b \in DOMAIN bookings THEN bookings[b] ELSE None))

\* bookings.py:519-526, with the deadline itself counted as missed
SlaMetStrict(snap, t) ==
    IF snap.expected_response_by = Null THEN snap.sla_met
    ELSE IF t < snap.expected_response_by THEN "True" ELSE "False"

\* bookings.py:519-526  booking.sla_met = now_utc <= expected_by, when the
\* booking has an expected_response_by
SlaMet(snap, t) ==
    IF snap.expected_response_by = Null THEN snap.sla_met
    ELSE IF t <= snap.expected_response_by THEN "True" ELSE "False"

\* bookings.py:512-526: the attributes submit_creator_response sets
ResponseWritten(w) ==
    [req[w].snap EXCEPT
        !.response_media_url = BlobUrl("responses/", req[w].bid, w),
        !.response_type = req[w].kind,
        !.response_submitted_at = now,
        !.status = "completed",
        !.sla_met = SlaMet(req[w].snap, now)]

submit_creator_response_commit(w) ==
    /\ req[w].pc = "loaded" /\ req[w].op = "submit_response"
    /\ bookings' = [bookings EXCEPT ![req[w].bid] = Flush(@, req[w].snap, ResponseWritten(w))]
    /\ Answer(w, "OK")
    /\ UNCHANGED <<follow_ups, now>>
    /\ UNCHANGED <<msgVars, orders, wsVars>>

\* follow_ups.py:67, accepting a booking with no follow-up left
NoFollowUpsLeftLax(remaining) == remaining < 0

\* follow_ups.py:67  booking.follow_ups_remaining <= 0
NoFollowUpsLeft(remaining) == remaining <= 0

\* follow_ups.py:43-143: the checks of submit_follow_up, in the handler's order
submit_follow_up_check(actor, b, kind, text, media) ==
    IF kind \notin QuestionTypes THEN "ValidationError"
    ELSE IF ~FanBooking(b, actor) THEN "NotFound"
    ELSE IF NoFollowUpsLeft(bookings[b].follow_ups_remaining) THEN "QuotaExceeded"
    ELSE IF bookings[b].status # "completed" THEN "InvalidState"
    ELSE IF ~PayloadValid(kind, text, media) THEN "ValidationError"
    ELSE "pass"

submit_follow_up_read(w, actor, b, kind, text, media) ==
    Read(w, "submit_follow_up", submit_follow_up_check(actor, b, kind, text, media),
         Loaded("submit_follow_up", actor, b, kind, text, media, Null,
                IF b \in DOMAIN bookings THEN bookings[b] ELSE None))

\* follow_ups.py:146-153
FollowUpRow(w) ==
    [booking_id |-> req[w].bid, sender_type |-> "fan", message_type |-> req[w].kind,
     text_content |-> req[w].text,
     audio_url |-> IF req[w].kind = "audio"
                     THEN BlobUrl("questions/audio_", req[w].bid, w) ELSE None,
     video_url |-> IF req[w].kind = "video"
                     THEN BlobUrl("questions/", req[w].bid, w) ELSE None]

\* follow_ups.py:158-159, without the decrement of line 158
FollowUpWrittenKeepBudget(w) ==
    [req[w].snap EXCEPT !.status = "awaiting_response"]

\* follow_ups.py:158-159
FollowUpWritten(w) ==
    [req[w].snap EXCEPT
        !.follow_ups_remaining = req[w].snap.follow_ups_remaining - 1,
        !.status = "awaiting_response"]

\* follow_ups.py:155-161, with the INSERT committed apart from the UPDATE
submit_follow_up_commit_row_only(w) ==
    /\ req[w].pc = "loaded" /\ req[w].op = "submit_follow_up"
    /\ follow_ups' = Append(follow_ups, FollowUpRow(w))
    /\ Answer(w, "OK")
    /\ UNCHANGED <<bookings, now>>
    /\ UNCHANGED <<msgVars, orders, wsVars>>

\* follow_ups.py:155-161: INSERT of the follow-up and UPDATE of the booking, one commit
submit_follow_up_commit(w) ==
    /\ req[w].pc = "loaded" /\ req[w].op = "submit_follow_up"
    /\ follow_ups' = Append(follow_ups, FollowUpRow(w))
    /\ bookings' = [bookings EXCEPT ![req[w].bid] = Flush(@, req[w].snap, FollowUpWritten(w))]
    /\ Answer(w, "OK")
    /\ UNCHANGED now
    /\ UNCHANGED <<msgVars, orders, wsVars>>

\* bookings.py:299-319, without the status check of lines 315-319
submit_rating_check_any_status(actor, b) ==
    IF ~FanBooking(b, actor) THEN "NotFound" ELSE "pass"

\* bookings.py:299-319: the checks of submit_rating
submit_rating_check(actor, b) ==
    IF ~FanBooking(b, actor) THEN "NotFound"
    ELSE IF bookings[b].status # "completed" THEN "InvalidState"
    ELSE "pass"

submit_rating_read(w, actor, b, rating, review) ==
    Read(w, "submit_rating", submit_rating_check(actor, b),
         Loaded("submit_rating", actor, b, None, review, None, rating,
                IF b \in DOMAIN bookings THEN bookings[b] ELSE None))

\* bookings.py:322-323
RatingWritten(w) ==
    [req[w].snap EXCEPT !.fan_rating = req[w].rating, !.fan_review = req[w].text]

submit_rating_commit(w) ==
    /\ req[w].pc = "loaded" /\ req[w].op = "submit_rating"
    /\ bookings' = [bookings EXCEPT ![req[w].bid] = Flush(@, req[w].snap, RatingWritten(w))]
    /\ Answer(w, "OK")
    /\ UNCHANGED <<follow_ups, now>>
    /\ UNCHANGED <<msgVars, orders, wsVars>>

\* the upload raises after the handler has moved the booking on and committed
upload_fails_after_transition(w) ==
    /\ req[w].pc = "loaded"
    /\ req[w].op \in {"submit_question", "submit_response", "submit_follow_up"}
    /\ req[w].kind \in {"audio", "video", "voice"}
    /\ bookings' = [bookings EXCEPT ![req[w].bid].status = "awaiting_response"]
    /\ Answer(w, "StorageFailure")
    /\ UNCHANGED <<follow_ups, now>>
    /\ UNCHANGED <<msgVars, orders, wsVars>>

\* The upload of an audio or video payload raises: the handler answers 500
\* before it has set any attribute.
upload_fails(w) ==
    /\ req[w].pc = "loaded"
    /\ req[w].op \in {"submit_question", "submit_response", "submit_follow_up"}
    /\ req[w].kind \in {"audio", "video", "voice"}
    /\ Answer(w, "StorageFailure")
    /\ UNCHANGED <<bookings, follow_ups, now>>
    /\ UNCHANGED <<msgVars, orders, wsVars>>

\* db.commit() raises: get_db rolls the session back and re-raises
commit_fails(w) ==
    /\ req[w].pc = "loaded"
    /\ Answer(w, "CommitFailed")
    /\ UNCHANGED <<bookings, follow_ups, now>>
    /\ UNCHANGED <<msgVars, orders, wsVars>>

\* time passes, to one of the hours `hours`
Tick(hours) ==
    /\ \E t \in hours : t > now /\ now' = t
    /\ UNCHANGED <<bookings, follow_ups, req, resp>>
    /\ UNCHANGED <<msgVars, orders, wsVars>>

NoRequestInFlight == \A w \in Workers : req[w].pc # "loaded"

\* the requests that clients issue, by any actor, with the payloads given
QuestionReads(ws, kinds, medias) ==
    \E w \in ws, actor \in BookingActors, b \in BookingIds, kind \in kinds,
       media \in medias : \E text \in {None, TextOf(w)} :
          submit_question_read(w, actor, b, kind, text, media)

ResponseReads(ws, kinds, medias) ==
    \E w \in ws, actor \in BookingActors, b \in BookingIds, kind \in kinds,
       media \in medias :
          submit_creator_response_read(w, actor, b, kind, media)

FollowUpReads(ws, kinds, medias) ==
    \E w \in ws, actor \in BookingActors, b \in BookingIds, kind \in kinds,
       media \in medias : \E text \in {None, TextOf(w)} :
          submit_follow_up_read(w, actor, b, kind, text, media)

RatingReads(ws, ratings) ==
    \E w \in ws, actor \in BookingActors, b \in BookingIds, rating \in ratings,
       review \in Reviews :
          submit_rating_read(w, actor, b, rating, review)

BookingEnd ==
    \/ \E w \in Workers : submit_question_commit(w)
    \/ \E w \in Workers : submit_creator_response_commit(w)
    \/ \E w \in Workers : submit_follow_up_commit(w)
    \/ \E w \in Workers : submit_rating_commit(w)
    \/ \E w \in Workers : upload_fails(w)
    \/ \E w \in Workers : commit_fails(w)

BookingEnv(hours) ==
    \/ \E amount \in Amounts :
          Len(bookings) < MaxBookings /\ create_booking(Fan, Creator, amount)
    \/ Tick(hours)

\* ------------------------------------------------------------- replies
MessageStatus == {"pending", "replied", "archived"}

\* select(Message) by id, receiver_id == current_user.id, is_fan_message == True
InboundMessage(m, actor) ==
    /\ m \in 1..Len(messages)
    /\ messages[m].receiver_id = actor
    /\ messages[m].is_fan_message

\* messages.py:184-203: the checks of reply_to_message, in the handler's order
reply_to_message_check(actor, m) ==
    IF ~InboundMessage(m, actor) THEN "NotFound"
    ELSE IF messages[m].status = "replied" THEN "AlreadyReplied"
    ELSE "pass"

\* reply_to_message up to the point where it has built the reply: the SELECT
\* of the original message and the checks made on the row read
reply_to_message_read(q, actor, m) ==
    /\ send[q].pc = "idle"
    /\ IF reply_to_message_check(actor, m) = "pass"
         THEN send' = [send EXCEPT ![q] = [pc |-> "loaded", actor |-> actor,
                                            snap |-> messages[m], result |-> None,
                                            mid |-> m]]
         ELSE send' = [send EXCEPT ![q] = [pc |-> "done", actor |-> actor,
                                            snap |-> None,
                                            result |-> reply_to_message_check(actor, m),
                                            mid |-> m]]
    /\ UNCHANGED <<subscription, messages>>
    /\ UNCHANGED <<bookVars, orders, wsVars>>

\* messages.py:206-215
ReplyMessage(actor, original) ==
    [sender_id |-> actor, receiver_id |-> original.sender_id, status |-> "replied",
     is_fan_message |-> FALSE, replied_at |-> Null]

\* messages.py:220-222
OriginalReplied(snap) ==
    [snap EXCEPT !.status = "replied", !.replied_at = now]

\* messages.py:217-239: INSERT of the reply and UPDATE of the original
\* message in one commit, then the push of the reply to the fan and the return
reply_to_message_commit(q) ==
    /\ send[q].pc = "loaded"
    /\ messages' =
          Append([messages EXCEPT ![send[q].mid] =
                      Flush(@, send[q].snap, OriginalReplied(send[q].snap))],
                 ReplyMessage(send[q].actor, send[q].snap))
    /\ AfterCommit(q, send[q].snap.sender_id, Len(messages) + 1)
    /\ UNCHANGED <<subscription, active_connections, sockets>>
    /\ UNCHANGED <<bookVars, orders>>

\* the fan has sent one message, which waits for the creator's reply
InitReply ==
    /\ subscription = [NewSubscription EXCEPT !.messages_sent_this_period = 1]
    /\ messages = <<FanMessage(Fan)>>
    /\ send = [q \in ReplyIds |-> IdleRequest]
    /\ bookings = <<>>
    /\ follow_ups = <<>>
    /\ req = [w \in Workers |-> IdleWorker]
    /\ resp = NoResponse
    /\ now = 0
    /\ orders = 0
    /\ active_connections = NoConnections
    /\ sockets = [c \in Connections |-> NewSocket]
    /\ pushes = [q \in ReplyIds |-> NoPush]

\* reply_to_message requests that overlap in every way, as time passes
NextReply ==
    \/ \E q \in ReplyIds, actor \in Users, m \in 1..Len(messages) :
          reply_to_message_read(q, actor, m)
    \/ \E q \in ReplyIds : reply_to_message_commit(q)
    \/ Tick({1, 2})

SpecReply == InitReply /\ [][NextReply]_vars

NoSendInFlight == \A r \in SendIds : send[r].pc # "loaded"

Init ==
    /\ subscription = NewSubscription
    /\ messages = <<>>
    /\ send = [r \in SendIds |-> IdleRequest]
    /\ bookings = <<>>
    /\ follow_ups = <<>>
    /\ req = [w \in Workers |-> IdleWorker]
    /\ resp = NoResponse
    /\ now = 0
    /\ orders = 0
    /\ active_connections = NoConnections
    /\ sockets = [c \in Connections |-> NewSocket]
    /\ pushes = [r \in SendIds |-> NoPush]

\* --------------------------------------------------------------- payments
\* payments.py:65, 111 and the NULL of a booking nobody has tried to pay
PaymentStatus == {None, "PENDING", "PAID"}

PaymentBookingIds == 1..MaxPaymentBookings

\* amount_paid of the bookings: one that cannot be paid, one that can
PaymentAmounts == {0, 199}

\* order['id'] of the n-th order the gateway creates
OrderId(n) == "order_" \o ToString(n)
OrderIds == {OrderId(n) : n \in 1..MaxOrders}

\* the orders the gateway has created so far
MintedOrders == {OrderId(n) : n \in 1..orders}

\* razorpay_payment_id of the payments a client reports
PaymentIds == {"pay_1", "pay_2"}

\* the signature the gateway issues for a payment of an order (the HMAC of
\* order id and payment id under the key secret)
GatewaySignature(order, payment) == "sig_" \o order \o "_" \o payment

\* a signature the gateway did not issue
Tampered == "tampered"

\* payment_service.py:32-52, accepting whatever signature it is given
verify_payment_signature_any(order, payment, signature) == TRUE

\* payment_service.py:32-52  client.utility.verify_payment_signature
verify_payment_signature(order, payment, signature) ==
    signature = GatewaySignature(order, payment)

\* a payment request that has read row `snap` and passed the handler's checks
LoadedPayment(op, actor, b, order, payment, signature, snap) ==
    [pc |-> "loaded", op |-> op, actor |-> actor, bid |-> b, order |-> order,
     payment |-> payment, signature |-> signature, snap |-> snap]

\* payments.py:25-51, without the ownership check of lines 38-42
create_payment_order_check_any_actor(actor, b) ==
    IF b \notin DOMAIN bookings THEN "NotFound"
    ELSE IF bookings[b].amount_paid <= 0 THEN "ValidationError"
    ELSE "pass"

\* payments.py:25-51: the checks of create_payment_order, in the handler's order
create_payment_order_check(actor, b) ==
    IF b \notin DOMAIN bookings THEN "NotFound"
    ELSE IF bookings[b].fan_id # actor THEN "Forbidden"
    ELSE IF bookings[b].amount_paid <= 0 THEN "ValidationError"
    ELSE "pass"

create_payment_order_read(w, actor, b) ==
    Read(w, "create_order", create_payment_order_check(actor, b),
         LoadedPayment("create_order", actor, b, None, None, None,
                       IF b \in DOMAIN bookings THEN bookings[b] ELSE None))

\* payments.py:64-65
OrderWritten(w) ==
    [req[w].snap EXCEPT
        !.razorpay_order_id = OrderId(orders + 1),
        !.payment_status = "PENDING"]

\* payments.py:53-67: the gateway creates the order, the booking is updated
\* and committed
create_payment_order_commit(w) ==
    /\ req[w].pc = "loaded" /\ req[w].op = "create_order"
    /\ orders < MaxOrders
    /\ orders' = orders + 1
    /\ bookings' = [bookings EXCEPT ![req[w].bid] = Flush(@, req[w].snap, OrderWritten(w))]
    /\ Answer(w, "OK")
    /\ UNCHANGED <<follow_ups, now>>
    /\ UNCHANGED <<msgVars, wsVars>>

\* payments.py:53-62: payment_service.create_order raises
gateway_fails(w) ==
    /\ req[w].pc = "loaded" /\ req[w].op = "create_order"
    /\ Answer(w, "GatewayError")
    /\ UNCHANGED <<bookings, follow_ups, now>>
    /\ UNCHANGED <<msgVars, orders, wsVars>>

\* select(Booking).where(Booking.razorpay_order_id == order)
BookingsOfOrder(order) ==
    {b \in DOMAIN bookings : bookings[b].razorpay_order_id = order}

\* a lookup that returns the first booking, whatever its order
FirstBooking(order) == IF bookings = <<>> THEN 0 ELSE 1

\* result.scalar_one_or_none() of that select
FoundBooking(order) ==
    IF BookingsOfOrder(order) = {} THEN 0
    ELSE CHOOSE b \in BookingsOfOrder(order) : TRUE

\* payments.py:85-109: the checks of verify_payment, in the handler's order
verify_payment_check(order, payment, signature) ==
    IF ~verify_payment_signature(order, payment, signature) THEN "InvalidSignature"
    ELSE IF BookingsOfOrder(order) = {} THEN "NotFound"
    ELSE IF Cardinality(BookingsOfOrder(order)) > 1 THEN "ServerError"
    ELSE "pass"

verify_payment_read(w, order, payment, signature) ==
    Read(w, "verify", verify_payment_check(order, payment, signature),
         LoadedPayment("verify", None, FoundBooking(order), order, payment, signature,
                       IF FoundBooking(order) \in DOMAIN bookings
                         THEN bookings[FoundBooking(order)] ELSE None))

\* payments.py:111-124, moving the booking back to pending_question as well
PaymentWrittenWithStatus(w) ==
    [req[w].snap EXCEPT
        !.payment_status = "PAID",
        !.status = "pending_question",
        !.razorpay_payment_id = req[w].payment,
        !.razorpay_signature = req[w].signature]

\* payments.py:111-124
PaymentWritten(w) ==
    [req[w].snap EXCEPT
        !.payment_status = "PAID",
        !.razorpay_payment_id = req[w].payment,
        !.razorpay_signature = req[w].signature]

\* payments.py:111-127
verify_payment_commit(w) ==
    /\ req[w].pc = "loaded" /\ req[w].op = "verify"
    /\ bookings' = [bookings EXCEPT ![req[w].bid] = Flush(@, req[w].snap, PaymentWritten(w))]
    /\ Answer(w, "OK")
    /\ UNCHANGED <<follow_ups, now>>
    /\ UNCHANGED <<msgVars, orders, wsVars>>

\* the signatures a client can send with a payment of an order: one the
\* gateway did not issue, and the one it issued if it created the order
ClientSignatures(order, payment) ==
    {Tampered} \cup (IF order \in MintedOrders
                       THEN {GatewaySignature(order, payment)} ELSE {})

OrderReads(ws) ==
    \E w \in ws, actor \in BookingActors, b \in PaymentBookingIds :
        create_payment_order_read(w, actor, b)

VerifyReads(ws) ==
    \E w \in ws, order \in OrderIds, payment \in PaymentIds :
        \E signature \in ClientSignatures(order, payment) :
            verify_payment_read(w, order, payment, signature)

PaymentEnd ==
    \/ \E w \in Workers : create_payment_order_commit(w)
    \/ \E w \in Workers : gateway_fails(w)
    \/ \E w \in Workers : verify_payment_commit(w)
    \/ \E w \in Workers : commit_fails(w)

\* A row of table bookings whose status is cancelled.  No handler writes that
\* value; it is a legal value of the column (models.py:74), so the row is taken
\* as given: cancelled before a question, after the question, or after the
\* response, with `remaining` follow-ups left.
CancelledBooking(stage, remaining) ==
    [NewBooking(Fan, Creator, 199) EXCEPT
        !.status = "cancelled",
        !.follow_ups_remaining = remaining,
        !.question_type = IF stage = "pending_question" THEN None ELSE "text",
        !.question_text = IF stage = "pending_question" THEN None ELSE TextOf(1),
        !.question_submitted_at = IF stage = "pending_question" THEN Null ELSE 0,
        !.response_media_url =
            IF stage = "completed" THEN BlobUrl("responses/", 1, 1) ELSE None,
        !.response_type = IF stage = "completed" THEN "voice" ELSE None,
        !.response_submitted_at = IF stage = "completed" THEN 0 ELSE Null,
        !.sla_met = IF stage = "completed" THEN "True" ELSE None]

\* the follow-up that used up the budget of a booking
UsedFollowUp(b) ==
    [booking_id |-> b, sender_type |-> "fan", message_type |-> "text",
     text_content |-> TextOf(1), audio_url |-> None, video_url |-> None]

\* the database holds one cancelled booking
InitCancelled ==
    /\ subscription = NewSubscription
    /\ messages = <<>>
    /\ send = [r \in SendIds |-> IdleRequest]
    /\ req = [w \in Workers |-> IdleWorker]
    /\ resp = NoResponse
    /\ now = 0
    /\ orders = 0
    /\ active_connections = NoConnections
    /\ sockets = [c \in Connections |-> NewSocket]
    /\ pushes = [r \in SendIds |-> NoPush]
    /\ \E stage \in BookingStatus \ {"cancelled"}, remaining \in 0..DefaultFollowUps :
          /\ remaining = 0 => stage # "pending_question"
          /\ bookings = <<CancelledBooking(stage, remaining)>>
          /\ follow_ups = IF remaining = 0 THEN <<UsedFollowUp(1)>> ELSE <<>>

\* every request a client can make on the cancelled booking
NextCancelled ==
    \/ QuestionReads(Workers, TypeTags, ContentTypes)
    \/ ResponseReads(Workers, TypeTags, ContentTypes)
    \/ FollowUpReads(Workers, TypeTags, ContentTypes)
    \/ RatingReads(Workers, Ratings)
    \/ Tick(DeadlineHours)

SpecCancelled == InitCancelled /\ [][NextCancelled]_vars

\* core/dependencies.py:63-70  get_current_fan
IsFan(actor) == actor # Creator

\* subscriptions.py:155-182: the checks of cancel_subscription, in the handler's order
cancel_subscription_check(actor) ==
    IF ~IsFan(actor) THEN "Forbidden"
    ELSE IF subscription.fan_id # actor THEN "NotFound"
    ELSE IF subscription.status = "cancelled" THEN "AlreadyCancelled"
    ELSE "pass"

\* cancel_subscription up to its commit: the SELECT of the subscription (by id
\* and fan_id) and the checks made on the row read
cancel_subscription_read(c, actor) ==
    /\ send[c].pc = "idle"
    /\ IF cancel_subscription_check(actor) = "pass"
         THEN send' = [send EXCEPT ![c] = [pc |-> "loaded", actor |-> actor,
                                            snap |-> subscription, result |-> None]]
         ELSE send' = [send EXCEPT ![c] = [pc |-> "done", actor |-> actor,
                                            snap |-> None,
                                            result |-> cancel_subscription_check(actor)]]
    /\ UNCHANGED <<subscription, messages>>
    /\ UNCHANGED <<bookVars, orders, wsVars>>

\* subscriptions.py:184-187, answering without the UPDATE
cancel_subscription_commit_no_write(c) ==
    /\ send[c].pc = "loaded"
    /\ send' = [send EXCEPT ![c].pc = "done", ![c].result = "Cancelled"]
    /\ UNCHANGED <<subscription, messages>>
    /\ UNCHANGED <<bookVars, orders, wsVars>>

\* subscriptions.py:184-187  subscription.status = CANCELLED; db.commit(): the
\* UPDATE of status (and of next_billing_date, which the model leaves out)
cancel_subscription_commit(c) ==
    /\ send[c].pc = "loaded"
    /\ subscription' = [subscription EXCEPT !.status = "cancelled"]
    /\ send' = [send EXCEPT ![c].pc = "done", ![c].result = "Cancelled"]
    /\ UNCHANGED messages
    /\ UNCHANGED <<bookVars, orders, wsVars>>

\* A subscription in any status of the column (models.py:26-30, 247) that has
\* sent `sent` messages in the period.  The handlers write active
\* (subscriptions.py:67) and cancelled (184); paused and expired are taken as
\* given.
InitSubscription ==
    /\ \E status \in SubscriptionStatus, sent \in 0..(MaxMessagesPerMonth - 1) :
          /\ subscription = [NewSubscription EXCEPT
                                !.status = status,
                                !.messages_sent_this_period = sent]
          /\ messages = [i \in 1..sent |-> FanMessage(Fan)]
    /\ send = [r \in SendIds \cup CancelIds |-> IdleRequest]
    /\ bookings = <<>>
    /\ follow_ups = <<>>
    /\ req = [w \in Workers |-> IdleWorker]
    /\ resp = NoResponse
    /\ now = 0
    /\ orders = 0
    /\ active_connections = NoConnections
    /\ sockets = [c \in Connections |-> NewSocket]
    /\ pushes = [r \in SendIds |-> NoPush]

\* send_message and cancel_subscription requests that overlap in every way
NextSubscription ==
    \/ \E r \in SendIds, actor \in Users : send_message_read(r, actor)
    \/ \E r \in SendIds : send_message_commit(r)
    \/ \E c \in CancelIds, actor \in Users : cancel_subscription_read(c, actor)
    \/ \E c \in CancelIds : cancel_subscription_commit(c)

SpecSubscription == InitSubscription /\ [][NextSubscription]_vars

\* websockets that connect and go away, for any user
NextRegistry ==
    \/ \E c \in Connections, user \in Users : connect(c, user)
    \/ \E c \in Connections : disconnect(c)

SpecRegistry == Init /\ [][NextRegistry]_vars

\* the database has no message yet; requests to send and to reply will come
InitPush ==
    /\ subscription = NewSubscription
    /\ messages = <<>>
    /\ send = [r \in SendIds \cup ReplyIds |-> IdleRequest]
    /\ bookings = <<>>
    /\ follow_ups = <<>>
    /\ req = [w \in Workers |-> IdleWorker]
    /\ resp = NoResponse
    /\ now = 0
    /\ orders = 0
    /\ active_connections = NoConnections
    /\ sockets = [c \in Connections |-> NewSocket]
    /\ pushes = [r \in SendIds \cup ReplyIds |-> NoPush]

\* one send_message of the fan, pushed to the creator while websockets of
\* the creator connect and go away
NextPush ==
    \/ send_message_read(1, Fan)
    \/ send_message_commit(1)
    \/ \E c \in Connections : connect(c, Creator)
    \/ \E c \in Connections : disconnect(c)
    \/ \E ok \in BOOLEAN : send_json(1, ok)

SpecPush == InitPush /\ [][NextPush]_vars

\* the two websockets that connect where a message and its reply are pushed
PushConnections == 1..2

\* one send_message of the fan and one reply_to_message of the creator, each
\* pushed to the other, while websockets of both connect and go away
NextMessagePush ==
    \/ send_message_read(1, Fan)
    \/ send_message_commit(1)
    \/ \E m \in 1..Len(messages) : reply_to_message_read(FirstReply, Creator, m)
    \/ reply_to_message_commit(FirstReply)
    \/ \E c \in PushConnections, user \in {Fan, Creator} : connect(c, user)
    \/ \E c \in PushConnections : disconnect(c)
    \/ \E r \in {1, FirstReply}, ok \in BOOLEAN : send_json(r, ok)

SpecMessagePush == InitPush /\ [][NextMessagePush]_vars

\* Concurrent requests: any request may read while others wait to commit.
NextSend ==
    \/ \E r \in SendIds, actor \in Users : send_message_read(r, actor)
    \/ \E r \in SendIds : send_message_commit(r)

SpecSend == Init /\ [][NextSend]_vars

\* One request after another: a request reads only when no other is in flight.
NextSendSeq ==
    \/ \E r \in SendIds, actor \in Users : NoSendInFlight /\ send_message_read(r, actor)
    \/ \E r \in SendIds : send_message_commit(r)

SpecSendSeq == Init /\ [][NextSendSeq]_vars

\* Booking requests of concurrent workers
NextBooking ==
    \/ QuestionReads(Workers, {"text", "bogus"}, {None})
    \/ ResponseReads(Workers, {"voice", "bogus"}, {None, "audio/"})
    \/ FollowUpReads(Workers, {"text", "bogus"}, {None})
    \/ RatingReads(Workers, {5})
    \/ BookingEnd
    \/ BookingEnv({SlaHours + 1})

SpecBooking == Init /\ [][NextBooking]_vars

\* Booking requests one after another
NextBookingSeq ==
    \/ NoRequestInFlight /\ QuestionReads({1}, TypeTags \ {"video"}, ContentTypes)
    \/ NoRequestInFlight /\ ResponseReads({1}, TypeTags \ {"video"}, ContentTypes)
    \/ NoRequestInFlight /\ FollowUpReads({1}, TypeTags \ {"video"}, ContentTypes)
    \/ NoRequestInFlight /\ RatingReads({1}, Ratings)
    \/ BookingEnd
    \/ BookingEnv(DeadlineHours)

SpecBookingSeq == Init /\ [][NextBookingSeq]_vars

\* Payment requests of concurrent workers on the bookings created
NextPayment ==
    \/ \E amount \in PaymentAmounts :
          Len(bookings) < MaxPaymentBookings /\ create_booking(Fan, Creator, amount)
    \/ OrderReads(Workers)
    \/ VerifyReads(Workers)
    \/ PaymentEnd

SpecPayment == Init /\ [][NextPayment]_vars

\* Payment requests one after another
NextPaymentSeq ==
    \/ \E amount \in PaymentAmounts :
          Len(bookings) < MaxPaymentBookings /\ create_booking(Fan, Creator, amount)
    \/ NoRequestInFlight /\ OrderReads({1})
    \/ NoRequestInFlight /\ VerifyReads({1})
    \/ PaymentEnd

SpecPaymentSeq == Init /\ [][NextPaymentSeq]_vars

\* Booking requests of one worker and payment requests of another on the same
\* booking: each worker makes one request after another, while the requests
\* of the two overlap in every way
NextBookingPayment ==
    \/ \E amount \in Amounts :
          Len(bookings) < MaxBookings /\ create_booking(Fan, Creator, amount)
    \/ QuestionReads({1}, {"text"}, {None})
    \/ ResponseReads({1}, {"voice"}, {"audio/"})
    \/ FollowUpReads({1}, {"text"}, {None})
    \/ RatingReads({1}, {5})
    \/ BookingEnd
    \/ \E actor \in BookingActors, b \in BookingIds :
          create_payment_order_read(2, actor, b)
    \/ VerifyReads({2})
    \/ PaymentEnd

SpecBookingPayment == Init /\ [][NextBookingPayment]_vars

\* ------------------------------------------------- claims: message quota
Min(a, b) == IF a <= b THEN a ELSE b

AcceptedSends == {r \in SendIds : send[r].result = "Accepted"}
FanSends == {r \in SendIds : send[r].actor = Fan}
FanMessageRows == {i \in 1..Len(messages) : messages[i].is_fan_message}

\* C1: under any interleaving of N concurrent send_message requests of the fan
\* on an active subscription with counter c (here the c = 0 of a new
\* subscription) and limit L, the counter never exceeds L, exactly
\* min(N, L - c) requests are accepted once all have ended, and no two
\* requests that read the same counter value (two simultaneous sends, e.g. at
\* L - 1) are both accepted.
C1_QuotaRaceSafe ==
    /\ subscription.messages_sent_this_period <= MaxMessagesPerMonth
    /\ (\A r \in SendIds : send[r].pc = "done") =>
          Cardinality(AcceptedSends) =
              Min(Cardinality(FanSends),
                  MaxMessagesPerMonth - NewSubscription.messages_sent_this_period)
    /\ \A r1, r2 \in AcceptedSends :
          r1 # r2 => send[r1].snap.messages_sent_this_period
                        # send[r2].snap.messages_sent_this_period

\* C2: with send_message calls running one after another, a call made while
\* the counter is at or above the limit is rejected as QuotaExceeded, inserts
\* no Message and leaves the counter unchanged; a call made below the limit
\* is accepted, inserts one Message and raises the counter by exactly 1.
C2_SequentialQuota ==
    [][\A r \in SendIds :
        /\ (send[r].pc = "idle" /\ send'[r].pc # "idle"
                /\ send'[r].actor = subscription.fan_id
                /\ subscription.status = "active") =>
              IF subscription.messages_sent_this_period >= MaxMessagesPerMonth
                THEN /\ send'[r].pc = "done"
                     /\ send'[r].result = "QuotaExceeded"
                     /\ messages' = messages
                     /\ subscription' = subscription
                ELSE /\ send'[r].pc = "loaded"
                     /\ messages' = messages
                     /\ subscription' = subscription
        /\ (send[r].pc = "loaded" /\ send'[r].pc # "loaded") =>
              /\ send'[r].result = "Accepted"
              /\ subscription.messages_sent_this_period < MaxMessagesPerMonth
              /\ subscription'.messages_sent_this_period
                    = subscription.messages_sent_this_period + 1
              /\ Len(messages') = Len(messages) + 1
              /\ SubSeq(messages', 1, Len(messages)) = messages
      ]_vars

\* C2: a sequential run in which a send was accepted below the limit and a later
\* one was rejected at the limit.
C2_Witness ==
    /\ subscription.messages_sent_this_period = MaxMessagesPerMonth
    /\ \E r1, r2 \in SendIds :
          /\ send[r1].result = "Accepted"
          /\ send[r2].result = "QuotaExceeded"
    /\ Cardinality(FanMessageRows) = MaxMessagesPerMonth

\* C3: messages_sent_this_period equals the number of persisted fan Messages
\* of the subscription in every reachable state (no lost counter update).
C3_CounterEqualsFanMessages ==
    subscription.messages_sent_this_period = Cardinality(FanMessageRows)

\* ------------------------------------------------------ claims: bookings
\* the request `op` that worker w has in flight ends in this step with `result`
Ends(w, op, result) ==
    /\ req[w].pc = "loaded" /\ req[w].op = op
    /\ req'[w].pc = "idle"
    /\ resp' = Response(op, result)

FollowUpRowsOf(b) == {i \in 1..Len(follow_ups) : follow_ups[i].booking_id = b}

\* C4: of concurrent submit_question requests of the fan on a booking in
\* pending_question at most one succeeds: a request succeeds only while the
\* stored status is still pending_question (any other ends as InvalidState),
\* and the question stored is the one of the request that succeeded.
C4_OneQuestionSucceeds ==
    [][\A w \in Workers :
          Ends(w, "submit_question", "OK") =>
              /\ bookings[req[w].bid].status = "pending_question"
              /\ bookings'[req[w].bid].question_type = req[w].kind
              /\ bookings'[req[w].bid].question_text = req[w].text
      ]_vars

\* C5: every change of a booking's status is one of three edges, each made by
\* its operation: pending_question -> awaiting_response by submit_question,
\* awaiting_response -> completed by submit_response, and completed ->
\* awaiting_response by submit_follow_up on a booking with
\* follow_ups_remaining > 0; no step changes the status in any other way.
C5_StatusEdges ==
    [][\A b \in DOMAIN bookings :
          bookings'[b].status # bookings[b].status =>
              \E w \in Workers :
                  /\ req[w].pc = "loaded" /\ req'[w].pc = "idle" /\ req[w].bid = b
                  /\ \/ /\ req[w].op = "submit_question"
                        /\ bookings[b].status = "pending_question"
                        /\ bookings'[b].status = "awaiting_response"
                     \/ /\ req[w].op = "submit_response"
                        /\ bookings[b].status = "awaiting_response"
                        /\ bookings'[b].status = "completed"
                     \/ /\ req[w].op = "submit_follow_up"
                        /\ bookings[b].status = "completed"
                        /\ bookings'[b].status = "awaiting_response"
                        /\ bookings[b].follow_ups_remaining > 0
      ]_vars

\* C6: in a run of requests made one after another, create_booking leaves the
\* booking in pending_question with follow_ups_remaining = 1; an accepted text
\* question leaves it in awaiting_response; an accepted voice response leaves
\* it completed with sla_met set; an accepted text follow-up on the budget of 1
\* leaves follow_ups_remaining = 0 and the status awaiting_response, with one
\* row added; and a further follow-up of the fan is answered QuotaExceeded by
\* a step that changes neither the bookings nor the follow-up rows.
C6_Scenario ==
    /\ [](\A b \in DOMAIN bookings :
            (bookings[b].follow_ups_remaining = 0 /\ FollowUpRowsOf(b) # {}) =>
                \A w \in Workers :
                    submit_follow_up_check(bookings[b].fan_id, b, "text",
                                           TextOf(w), None) = "QuotaExceeded")
    /\ [][/\ Len(bookings') # Len(bookings) =>
                /\ bookings'[Len(bookings')].status = "pending_question"
                /\ bookings'[Len(bookings')].follow_ups_remaining = 1
          /\ \A w \in Workers :
                /\ (Ends(w, "submit_question", "OK") /\ req[w].kind = "text") =>
                      bookings'[req[w].bid].status = "awaiting_response"
                /\ (Ends(w, "submit_response", "OK") /\ req[w].kind = "voice") =>
                      /\ bookings'[req[w].bid].status = "completed"
                      /\ bookings'[req[w].bid].sla_met \in {"True", "False"}
                /\ (Ends(w, "submit_follow_up", "OK") /\ req[w].kind = "text"
                        /\ bookings[req[w].bid].follow_ups_remaining = 1) =>
                      /\ bookings'[req[w].bid].follow_ups_remaining = 0
                      /\ bookings'[req[w].bid].status = "awaiting_response"
                      /\ Len(follow_ups') = Len(follow_ups) + 1
          /\ resp' = Response("submit_follow_up", "QuotaExceeded") =>
                bookings' = bookings /\ follow_ups' = follow_ups
         ]_vars

\* C6: the state after the five requests of the scenario
C6_Witness ==
    \E b \in DOMAIN bookings :
        /\ bookings[b].question_type = "text"
        /\ bookings[b].response_type = "voice"
        /\ bookings[b].sla_met \in {"True", "False"}
        /\ bookings[b].follow_ups_remaining = 0
        /\ bookings[b].status = "awaiting_response"
        /\ Cardinality(FollowUpRowsOf(b)) = 1
        /\ \A i \in FollowUpRowsOf(b) :
              follow_ups[i].message_type = "text" /\ follow_ups[i].sender_type = "fan"
        /\ resp = Response("submit_follow_up", "QuotaExceeded")

\* C7: follow_ups_remaining is never negative; a submit_follow_up of the
\* booking's fan with a known message type on a booking whose
\* follow_ups_remaining is 0 is answered QuotaExceeded whatever the booking's
\* status and whatever the payload; and a step that answers QuotaExceeded
\* adds no follow-up row and leaves the bookings as they are.
C7_NoFollowUpWithoutBudget ==
    /\ [](\A b \in DOMAIN bookings :
            /\ bookings[b].follow_ups_remaining >= 0
            /\ bookings[b].follow_ups_remaining = 0 =>
                  \A kind \in QuestionTypes, media \in ContentTypes, w \in Workers :
                      \A text \in {None, TextOf(w)} :
                          submit_follow_up_check(bookings[b].fan_id, b, kind,
                                                 text, media) = "QuotaExceeded")
    /\ [][resp' = Response("submit_follow_up", "QuotaExceeded") =>
              bookings' = bookings /\ follow_ups' = follow_ups]_vars

\* C7: a follow-up was refused on a completed booking with no follow-up left
C7_Witness ==
    \E b \in DOMAIN bookings :
        /\ bookings[b].follow_ups_remaining = 0
        /\ bookings[b].status = "completed"
        /\ resp = Response("submit_follow_up", "QuotaExceeded")

\* C8: for every booking the number of its FollowUpMessage rows plus its
\* follow_ups_remaining equals the initial budget, in every reachable state,
\* also when submit_follow_up requests on the booking overlap.
C8_BudgetConserved ==
    \A b \in DOMAIN bookings :
        Cardinality(FollowUpRowsOf(b)) + bookings[b].follow_ups_remaining
            = DefaultFollowUps

\* C9: a follow-up row is persisted only by the step of an accepted
\* submit_follow_up, and that same step decrements the booking's
\* follow_ups_remaining and sets its status to awaiting_response; the budget
\* is decremented by no step that does not add the row; a submit_follow_up
\* that ends in an error (validation, upload, commit) persists neither; so no
\* persisted state holds a row of a booking whose budget is undiminished.
C9_FollowUpAtomic ==
    /\ [](\A b \in DOMAIN bookings :
            FollowUpRowsOf(b) # {} =>
                /\ bookings[b].follow_ups_remaining < DefaultFollowUps
                /\ bookings[b].status \in {"awaiting_response", "completed"})
    /\ [][/\ follow_ups' # follow_ups =>
                \E w \in Workers :
                    /\ Ends(w, "submit_follow_up", "OK")
                    /\ Len(follow_ups') = Len(follow_ups) + 1
                    /\ SubSeq(follow_ups', 1, Len(follow_ups)) = follow_ups
                    /\ follow_ups'[Len(follow_ups')].booking_id = req[w].bid
                    /\ bookings'[req[w].bid].follow_ups_remaining
                          = bookings[req[w].bid].follow_ups_remaining - 1
                    /\ bookings'[req[w].bid].status = "awaiting_response"
          /\ \A b \in DOMAIN bookings :
                bookings'[b].follow_ups_remaining # bookings[b].follow_ups_remaining =>
                    /\ Len(follow_ups') = Len(follow_ups) + 1
                    /\ follow_ups'[Len(follow_ups')].booking_id = b
          /\ \A w \in Workers :
                Ends(w, "submit_follow_up", "OK") => follow_ups' # follow_ups
          /\ (resp'.op = "submit_follow_up" /\ resp'.result # "OK") =>
                bookings' = bookings /\ follow_ups' = follow_ups
         ]_vars

\* C9: a follow-up has been accepted: its row and the booking's update are there
C9_Witness ==
    \E b \in DOMAIN bookings :
        /\ Cardinality(FollowUpRowsOf(b)) = 1
        /\ bookings[b].follow_ups_remaining = DefaultFollowUps - 1
        /\ bookings[b].status = "awaiting_response"
        /\ resp = Response("submit_follow_up", "OK")

\* C10: once sla_met of a booking has been set, no later step changes its
\* value, a second accepted submit_response after a follow-up included.
C10_SlaMetSetOnce ==
    [][\A b \in DOMAIN bookings :
          bookings[b].sla_met # None => bookings'[b].sla_met = bookings[b].sla_met
      ]_vars

\* C11: the first accepted submit_response, made at time t on a booking
\* created at time t0, sets sla_met to true exactly when t <= t0 + 48 hours
\* (true at t0 + 47h and at t0 + 48h, false at t0 + 49h); and sla_met is null
\* for as long as the booking has no response, however late the clock is.
C11_SlaMetByDeadline ==
    /\ [](\A b \in DOMAIN bookings :
            bookings[b].response_submitted_at = Null => bookings[b].sla_met = None)
    /\ [][\A w \in Workers :
            (Ends(w, "submit_response", "OK")
                /\ bookings[req[w].bid].response_submitted_at = Null) =>
                bookings'[req[w].bid].sla_met =
                    IF now <= bookings[req[w].bid].created_at + SlaHours
                      THEN "True" ELSE "False"
         ]_vars

\* C11: a first response made 49 hours after the creation of the booking has
\* set sla_met to false
C11_Witness ==
    \E b \in DOMAIN bookings :
        /\ bookings[b].follow_ups_remaining = DefaultFollowUps
        /\ bookings[b].response_submitted_at = bookings[b].created_at + SlaHours + 1
        /\ bookings[b].sla_met = "False"

\* the response fields of a booking row
ResponseFields(row) ==
    <<row.response_media_url, row.response_type, row.response_submitted_at>>

\* the question fields of a booking row
QuestionFields(row) ==
    <<row.question_type, row.question_text, row.question_audio_url,
      row.question_video_url, row.question_submitted_at>>

\* the payload fields of the question that are populated
PopulatedPayload(row) ==
    {f \in {"question_text", "question_audio_url", "question_video_url"} :
        row[f] # None}

\* the payload field that goes with a question type
PayloadFieldOf(kind) ==
    CASE kind = "text" -> "question_text"
      [] kind = "audio" -> "question_audio_url"
      [] kind = "video" -> "question_video_url"

\* C12: the response fields (media reference, type, timestamp) of a booking
\* are null until its first accepted submit_response, are written only while
\* its status is awaiting_response, and once written are overwritten by no
\* later step.
C12_ResponseFieldsOnce ==
    /\ [](\A b \in DOMAIN bookings :
            bookings[b].status = "pending_question" =>
                ResponseFields(bookings[b]) = <<None, None, Null>>)
    /\ [][\A b \in DOMAIN bookings :
            ResponseFields(bookings'[b]) # ResponseFields(bookings[b]) =>
                /\ bookings[b].status = "awaiting_response"
                /\ ResponseFields(bookings[b]) = <<None, None, Null>>
         ]_vars

\* C13: in every state of every booking, question type and question
\* timestamp are populated exactly when the status is awaiting_response or
\* completed (never in pending_question), and once populated the question
\* fields are changed by no step.
C13_QuestionFieldsOnce ==
    /\ [](\A b \in DOMAIN bookings :
            (bookings[b].question_type # None
                /\ bookings[b].question_submitted_at # Null)
            <=> bookings[b].status \in {"awaiting_response", "completed"})
    /\ [](\A b \in DOMAIN bookings :
            bookings[b].status = "pending_question" =>
                QuestionFields(bookings[b]) = <<None, None, None, None, Null>>)
    /\ [][\A b \in DOMAIN bookings :
            bookings[b].question_type # None =>
                QuestionFields(bookings'[b]) = QuestionFields(bookings[b])
         ]_vars

\* C14: a booking whose question has been accepted has exactly one of
\* question_text, question_audio_url, question_video_url populated, the one
\* that goes with its question_type, whatever type, text and media the
\* accepted request carried.
C14_OnePayloadField ==
    \A b \in DOMAIN bookings :
        bookings[b].question_type # None =>
            PopulatedPayload(bookings[b]) = {PayloadFieldOf(bookings[b].question_type)}

\* C15: a rating is set once: a submit_rating on a booking that has a rating
\* is not accepted, and no step changes fan_rating or fan_review of a booking
\* that has a rating.
C15_RatingOnce ==
    [][/\ \A b \in DOMAIN bookings :
            bookings[b].fan_rating # Null =>
                /\ bookings'[b].fan_rating = bookings[b].fan_rating
                /\ bookings'[b].fan_review = bookings[b].fan_review
       /\ \A w \in Workers :
            Ends(w, "submit_rating", "OK") => bookings[req[w].bid].fan_rating = Null
      ]_vars

\* C17: a submit_question that fails leaves the booking as it was, in
\* pending_question with no question field: a text question without text and
\* an audio or video question without media or with media of another content
\* type are answered ValidationError, a failing upload is answered
\* StorageFailure, and the answering step writes nothing.
C17_FailedQuestionChangesNothing ==
    /\ [](\A b \in DOMAIN bookings :
            bookings[b].status = "pending_question" =>
                \A w \in Workers, media \in ContentTypes :
                    \A text \in {None, TextOf(w)} :
                        /\ submit_question_check(bookings[b].fan_id, b, "text",
                                                 None, media) = "ValidationError"
                        /\ media # "audio/" =>
                              submit_question_check(bookings[b].fan_id, b, "audio",
                                                    text, media) = "ValidationError"
                        /\ media # "video/" =>
                              submit_question_check(bookings[b].fan_id, b, "video",
                                                    text, media) = "ValidationError")
    /\ [][/\ (resp'.op = "submit_question"
                /\ resp'.result \in {"ValidationError", "StorageFailure"}) =>
                bookings' = bookings /\ follow_ups' = follow_ups
          /\ \A w \in Workers :
                Ends(w, "submit_question", "StorageFailure") =>
                    /\ bookings'[req[w].bid].status = "pending_question"
                    /\ QuestionFields(bookings'[req[w].bid])
                          = <<None, None, None, None, Null>>
         ]_vars

\* C17: the upload of a question has failed and the booking is untouched
C17_Witness ==
    \E b \in DOMAIN bookings :
        /\ bookings[b].status = "pending_question"
        /\ QuestionFields(bookings[b]) = <<None, None, None, None, Null>>
        /\ resp = Response("submit_question", "StorageFailure")

\* C18: submit_question on an existing booking by an actor other than the
\* booking's fan is answered Forbidden (not NotFound), and submit_question by
\* the fan on a booking that is not in pending_question is answered
\* InvalidState.
C18_ForbiddenNotOwner ==
    \A b \in DOMAIN bookings : \A w \in Workers :
        /\ \A actor \in Users \ {bookings[b].fan_id} :
              submit_question_check(actor, b, "text", TextOf(w), None) = "Forbidden"
        /\ bookings[b].status # "pending_question" =>
              submit_question_check(bookings[b].fan_id, b, "text", TextOf(w), None)
                  = "InvalidState"

\* C16: a cancelled booking is terminal: submit_question, submit_response,
\* submit_follow_up and submit_rating are rejected for every actor and every
\* payload, as InvalidState when the booking's fan (for the response: its
\* creator) sends a well-formed request, follow-ups with a budget left
\* included; and no step changes the booking or adds a follow-up row.
C16_CancelledTerminal ==
    /\ [](\A b \in DOMAIN bookings :
            bookings[b].status = "cancelled" =>
                \A actor \in Users, kind \in TypeTags, media \in ContentTypes,
                   w \in Workers :
                    \A text \in {None, TextOf(w)} :
                        /\ submit_question_check(actor, b, kind, text, media) # "pass"
                        /\ submit_creator_response_check(actor, b, kind, media) # "pass"
                        /\ submit_follow_up_check(actor, b, kind, text, media) # "pass"
                        /\ submit_rating_check(actor, b) # "pass"
                        /\ (actor = bookings[b].fan_id /\ kind \in QuestionTypes) =>
                              /\ submit_question_check(actor, b, kind, text, media)
                                    = "InvalidState"
                              /\ bookings[b].follow_ups_remaining > 0 =>
                                    submit_follow_up_check(actor, b, kind, text, media)
                                        = "InvalidState"
                              /\ submit_rating_check(actor, b) = "InvalidState"
                        /\ (actor = bookings[b].creator_id /\ kind \in ResponseTypes) =>
                              submit_creator_response_check(actor, b, kind, media)
                                  = "InvalidState")
    /\ [][\A b \in DOMAIN bookings :
            bookings[b].status = "cancelled" =>
                bookings'[b] = bookings[b] /\ follow_ups' = follow_ups]_vars

\* C16: a follow-up on a cancelled booking with a follow-up left was refused
C16_Witness ==
    \E b \in DOMAIN bookings :
        /\ bookings[b].status = "cancelled"
        /\ bookings[b].follow_ups_remaining > 0
        /\ bookings[b].response_type # None
        /\ resp = Response("submit_follow_up", "InvalidState")

\* ------------------------------------------------------ claims: payments
\* the payment fields of a booking row
PaymentFields(row) ==
    <<row.payment_status, row.razorpay_order_id, row.razorpay_payment_id,
      row.razorpay_signature>>

\* the signatures the gateway can have issued, and one it did not issue
Signatures ==
    {Tampered} \cup
    {GatewaySignature(order, payment) : order \in OrderIds, payment \in PaymentIds}

\* C19: a verify whose signature is not the one the gateway issued for the
\* given order and payment (a tampered one, or one issued for another order
\* or payment) is answered InvalidSignature, and the answering step leaves
\* every booking, its payment_status, payment reference and signature
\* included, as it was.
C19_InvalidSignatureChangesNothing ==
    /\ [](\A order \in OrderIds, payment \in PaymentIds, signature \in Signatures :
            signature # GatewaySignature(order, payment) =>
                verify_payment_check(order, payment, signature) = "InvalidSignature")
    /\ [][resp' = Response("verify", "InvalidSignature") => bookings' = bookings]_vars

\* C19: a verify with a bad signature was refused while a booking had an
\* order waiting for its payment
C19_Witness ==
    \E b \in DOMAIN bookings :
        /\ bookings[b].payment_status = "PENDING"
        /\ bookings[b].razorpay_order_id \in OrderIds
        /\ bookings[b].razorpay_signature = None
        /\ resp = Response("verify", "InvalidSignature")

PaymentOps == {"create_order", "verify"}
BookingOps == {"submit_question", "submit_response", "submit_follow_up", "submit_rating"}

\* status, question, response, rating and follow-up budget of a booking row
LifecycleFields(row) ==
    <<row.status, QuestionFields(row), ResponseFields(row), row.sla_met,
      row.fan_rating, row.fan_review, row.follow_ups_remaining>>

\* worker w ends the request it has in flight, one of `ops`, in this step
EndsOneOf(w, ops) ==
    req[w].pc = "loaded" /\ req[w].op \in ops /\ req'[w].pc = "idle"

SendIssued(r) ==
    /\ send[r].pc = "idle" /\ send'[r].pc # "idle"
    /\ send'[r].actor = subscription.fan_id

AcceptedReplies(m) ==
    {q \in ReplyIds : send[q].result = "Accepted" /\ send[q].mid = m}

\* the creator's reply rows
ReplyRows == {i \in 1..Len(messages) : ~messages[i].is_fan_message}

\* C24: for every inbound fan Message at most one reply_to_message is
\* accepted and at most one reply row is created, and replied_at, once set,
\* is changed by no later step, under any interleaving of reply_to_message
\* requests for that message.
C24_OneReply ==
    /\ [](\A m \in 1..Len(messages) :
            messages[m].is_fan_message => Cardinality(AcceptedReplies(m)) <= 1)
    /\ [](Cardinality(ReplyRows)
            <= Cardinality({m \in 1..Len(messages) : messages[m].is_fan_message}))
    /\ [][\A m \in 1..Len(messages) :
            messages[m].replied_at # Null =>
                messages'[m].replied_at = messages[m].replied_at]_vars

\* ------------------------------------------- claims: push delivery
\* the registry `registry` without connection c of `user`: the other
\* connections of the user in their order, the user's entry gone when none is
\* left, every other user's entry as it is
Without(registry, c, user) ==
    LET Keep(x) == x # c
        Left(u) == IF u = user THEN SelectSeq(registry[u], Keep) ELSE registry[u]
    IN  [u \in {v \in DOMAIN registry : Left(v) # <<>>} |-> Left(u)]

\* C25: disconnect(connection, user) removes exactly that connection, leaves
\* every other connection of the user and of other users registered, and
\* prunes the user's entry when no connection is left; the registry never
\* holds a user with an empty list; and a disconnect of an unknown user or of
\* a connection that is not registered for the user changes nothing.
C25_DeregisterExact ==
    /\ [](\A u \in DOMAIN active_connections : active_connections[u] # <<>>)
    /\ [](\A c \in Connections, user \in Users :
            /\ Disconnected(active_connections, c, user)
                  = Without(active_connections, c, user)
            /\ (user \notin DOMAIN active_connections
                    \/ c \notin Range(active_connections[user])) =>
                  Disconnected(active_connections, c, user) = active_connections)
    /\ [][\A c \in Connections :
            (sockets[c].state = "open" /\ sockets'[c].state = "closed") =>
                active_connections' = Without(active_connections, c, sockets[c].user)
         ]_vars

\* C25: of two connections of a user one has gone and the other is still
\* registered, next to a connection of another user
C25_Witness ==
    \E c1, c2, c3 \in Connections :
        /\ sockets[c1].state = "closed" /\ sockets[c2].state = "open"
        /\ sockets[c3].state = "open"
        /\ sockets[c1].user = sockets[c2].user
        /\ sockets[c3].user # sockets[c2].user
        /\ active_connections[sockets[c2].user] = <<c2>>
        /\ active_connections[sockets[c3].user] = <<c3>>

\* the send_personal_message call of request r returns in this step
PushEnds(r) == send[r].pc = "pushing" /\ send'[r].pc = "done"

\* C26: a push writes the event to every connection that is registered for
\* the user from the beginning of the push to its end, whether or not writes
\* to other connections fail and whether or not other connections of the
\* user are registered or deregistered while the push awaits a write.
C26_PushReachesAll ==
    [][\A r \in DOMAIN pushes :
          PushEnds(r) =>
              \A c \in pushes[r].first :
                  sockets'[c].state = "open" => c \in pushes'[r].tried
      ]_vars

\* the push of request r has ended without a single write that succeeded
AllWritesFailed(r) ==
    /\ send[r].pc = "done"
    /\ pushes[r].tried # {}
    /\ \A c \in pushes[r].tried : pushes[r].event \notin sockets[c].received

\* C27: while send_message or reply_to_message pushes, the Message it
\* inserted is in the table (and for a send the counter has been raised past
\* the value read, for a reply the original is marked replied); every event a
\* websocket has received is that of a committed Message; a step of the push,
\* a failing write included, changes neither the messages nor the
\* subscription; and the handler's result after the push is Accepted, also
\* when every write of the push has failed.
C27_PushAfterCommit ==
    /\ [](\A r \in DOMAIN send :
            send[r].pc = "pushing" =>
                /\ pushes[r].event \in 1..Len(messages)
                /\ messages[pushes[r].event].sender_id = send[r].actor
                /\ r \in SendIds =>
                      /\ messages[pushes[r].event].is_fan_message
                      /\ subscription.messages_sent_this_period
                            >= send[r].snap.messages_sent_this_period + 1
                /\ r \in ReplyIds =>
                      /\ ~messages[pushes[r].event].is_fan_message
                      /\ messages[send[r].mid].status = "replied")
    /\ [](\A c \in Connections : sockets[c].received \subseteq 1..Len(messages))
    /\ [][\A r \in DOMAIN send :
            /\ (send[r].pc = "pushing" /\ pushes'[r] # pushes[r]) =>
                  messages' = messages /\ subscription' = subscription
            /\ PushEnds(r) => send'[r].result = "Accepted"
         ]_vars

\* C27: the pushes of a send and of a reply have both ended with every write
\* failed; both requests were accepted and message, reply and counter are there
C27_Witness ==
    /\ AllWritesFailed(1) /\ send[1].result = "Accepted"
    /\ AllWritesFailed(FirstReply) /\ send[FirstReply].result = "Accepted"
    /\ Len(messages) = 2
    /\ subscription.messages_sent_this_period = 1
    /\ messages[1].status = "replied"

\* the rank of a payment status in the order none < PENDING < PAID
PaymentRank(status) ==
    CASE status = None -> 0
      [] status = "PENDING" -> 1
      [] status = "PAID" -> 2

\* C28: the payment status of a booking never regresses (none, then PENDING,
\* then PAID), and once a booking is PAID no step, a further create_order of
\* its fan included, changes its payment_status or the order reference the
\* payment was verified against.
C28_PaymentNeverRegresses ==
    [][\A b \in DOMAIN bookings :
          /\ PaymentRank(bookings'[b].payment_status)
                >= PaymentRank(bookings[b].payment_status)
          /\ bookings[b].payment_status = "PAID" =>
                bookings'[b].razorpay_order_id = bookings[b].razorpay_order_id
      ]_vars

\* C29: a confirmation that carries the gateway's signature for an order that
\* create_order has minted finds the booking of that order: for no minted
\* order do the checks of verify end in NotFound, and no verify has been
\* answered NotFound, also after a second create_order on the same booking.
C29_MintedOrderFound ==
    /\ \A order \in MintedOrders, payment \in PaymentIds :
          verify_payment_check(order, payment, GatewaySignature(order, payment))
              # "NotFound"
    /\ resp # Response("verify", "NotFound")

\* ---------------------------------------------- claims: bounded lifecycle
\* how far a booking has come: two steps for every follow-up used, and one
\* for the question, two for the response, of the round it is in
Phase(row) ==
    2 * (DefaultFollowUps - row.follow_ups_remaining)
        + (CASE row.status = "pending_question" -> 0
             [] row.status = "awaiting_response" -> 1
             [] row.status = "completed" -> 2
             [] row.status = "cancelled" -> 0)

\* C30: the lifecycle of a booking with follow-up budget B is bounded: every
\* change of its status and every accepted submit_response moves the booking
\* exactly one phase on, an accepted submit_response to the completed phase
\* of its round, and there are 2 + 2*B phases, so that no more than 2 + 2*B
\* status changes and 1 + B accepted responses can happen; and once the
\* booking is completed with follow_ups_remaining = 0 no step changes its
\* status.
C30_BoundedLifecycle ==
    /\ [](\A b \in DOMAIN bookings :
            Phase(bookings[b]) \in 0..(2 + 2 * DefaultFollowUps))
    /\ [][\A b \in DOMAIN bookings :
            /\ bookings'[b].status # bookings[b].status =>
                  Phase(bookings'[b]) = Phase(bookings[b]) + 1
            /\ (\E w \in Workers :
                    Ends(w, "submit_response", "OK") /\ req[w].bid = b) =>
                  /\ Phase(bookings'[b]) = Phase(bookings[b]) + 1
                  /\ bookings'[b].status = "completed"
            /\ (bookings[b].status = "completed"
                    /\ bookings[b].follow_ups_remaining = 0) =>
                  bookings'[b].status = bookings[b].status
         ]_vars

====
